---- MODULE Spec2Model ----
(***************************************************************************)
(* DrivingPedals2: the Range Tracker of reader.py (ESP32, MicroPython) and *)
(* the shaping / emission loop of driver.py (host).                        *)
(*                                                                         *)
(* Units.  reader.py: pitch values are whole degrees, timestamps are       *)
(* milliseconds, the normalized output is in hundredths of a percent       *)
(* (the program rounds it to two decimals).  driver.py: percentages are in *)
(* tenths of a percent on a decimal grid with round-to-nearest in place of *)
(* binary64.                                                               *)
(***************************************************************************)
EXTENDS Integers, Sequences, FiniteSets, TLC

\* ---------------------------------------------------------------- bounds
\* last timestamp at which the reader loop starts a tick
MaxNow == 2000

\* ------------------------------------------------------ Python's Optional
None == {}

Some(x) == {x}

TheVal(s) == CHOOSE x \in s : TRUE

\* ------------------------------------------------------------- reader.py
DEBOUNCE_MS == 1000

MUX_CHANNELS == {0, 1, 2}

\* pitch angles a sensor can deliver (get_pitch of an accelerometer read)
PitchValues == {-1, 0, 2}

\* time that can pass between two readings of ticks_ms()
TickDeltas == {500, 1000}

VARIABLES now, idx, accel, current, norm, initial, min_vals, max_vals,
          min_stable_ms, max_stable_ms, normalized_positions, printed, spike,
          initial_seen

rvars == <<now, idx, accel, current, norm, initial, min_vals, max_vals,
           min_stable_ms, max_stable_ms, normalized_positions, printed, spike,
           initial_seen>>

\* utime.ticks_diff: no wrap of the tick counter happens below MaxNow
ticks_diff(a, b) == a - b

\* reader.py inverts the sensors with index 0 and 2
Invert(ax, p) == IF ax \in {0, 2} THEN 0 - p ELSE p

\* no clamping at all
rclamp_Off(val, lo, hi) == val

rclamp(val, lo, hi) == IF val < lo THEN lo ELSE IF val > hi THEN hi ELSE val

\* n / d (d > 0) rounded to the nearest integer, ties to even, as round()
RoundDiv(n, d) ==
    LET q == n \div d
        r == n % d
    IN  IF 2 * r < d THEN q
        ELSE IF 2 * r > d THEN q + 1
        ELSE IF q % 2 = 0 THEN q ELSE q + 1

\* the value the main loop works with: a failed read falls back to max
ReadCurrent(ax, acc, mx) ==
    IF acc = None THEN mx ELSE Invert(ax, TheVal(acc))

\* a commit on timer expiry that does not look at the comparison again
DebounceMin_NoRecheck(cur, mn, st, t) ==
    IF st # None /\ ticks_diff(t, TheVal(st)) >= DEBOUNCE_MS THEN <<cur, None>>
    ELSE IF cur < mn
         THEN IF st = None THEN <<mn, Some(t)>> ELSE <<mn, st>>
         ELSE <<mn, None>>

\* the pending-min timer left running when the sample is back at min or above
DebounceMin_KeepTimer(cur, mn, st, t) ==
    IF cur < mn
    THEN IF st = None THEN <<mn, Some(t)>>
         ELSE IF ticks_diff(t, TheVal(st)) >= DEBOUNCE_MS THEN <<cur, None>>
         ELSE <<mn, st>>
    ELSE <<mn, st>>

\* debounced MIN update: the new <<min, pending-min timer>>
DebounceMin(cur, mn, st, t) ==
    IF cur < mn
    THEN IF st = None THEN <<mn, Some(t)>>
         ELSE IF ticks_diff(t, TheVal(st)) >= DEBOUNCE_MS THEN <<cur, None>>
         ELSE <<mn, st>>
    ELSE <<mn, None>>

\* debounced MAX update: the new <<max, pending-max timer>>
DebounceMax(cur, mx, st, t) ==
    IF cur > mx
    THEN IF st = None THEN <<mx, Some(t)>>
         ELSE IF ticks_diff(t, TheVal(st)) >= DEBOUNCE_MS THEN <<cur, None>>
         ELSE <<mx, st>>
    ELSE <<mx, None>>

\* the position measured from max instead of from min
Normalize_FromMax(cur, mn, mx) ==
    LET diff == mx - mn
    IN  IF diff = 0 THEN 10000
        ELSE IF diff > 0
             THEN RoundDiv(rclamp((mx - cur) * 10000, 0, 10000 * diff), diff)
             ELSE RoundDiv(rclamp((cur - mx) * 10000, 0, 10000 * (0 - diff)), 0 - diff)

\* normalize to 0..100, in hundredths of a percent
Normalize(cur, mn, mx) ==
    LET diff == mx - mn
    IN  IF diff = 0 THEN 10000
        ELSE IF diff > 0
             THEN RoundDiv(rclamp((cur - mn) * 10000, 0, 10000 * diff), diff)
             ELSE RoundDiv(rclamp((mn - cur) * 10000, 0, 10000 * (0 - diff)), 0 - diff)

\* (initial_seen[k]: history of axis k, whether the startup value of its
\* bounds has occurred as a reading of its sensor)

\* history of an axis for the hold-time rule of DEBOUNCE_MS: which bound, if
\* any, this tick committed from a value that the tick before did not carry
\* (prev is the axis's value on the tick before)
Unheld(prev, cur, mn, nmn, mx, nmx) ==
    IF nmn # mn /\ prev # None /\ TheVal(prev) > cur THEN "min"
    ELSE IF nmx # mx /\ prev # None /\ TheVal(prev) < cur THEN "max"
    ELSE "none"

\* startup: min and max from the first reading, 0.0 when both reads fail
StartupValue(ax, acc) == Invert(ax, IF acc = None THEN 0 ELSE TheVal(acc))

Reads == {None} \cup {Some(p) : p \in PitchValues}


\* ------------------------------------------------------------- driver.py
\* percentages and deadzones in tenths of a percent, alpha in tenths
ABS_MIN == 0

ABS_MAX == 255

ALPHA == 2

DEADZONE_TOP_PERCENT == 100

DEADZONE_BOTTOM_PERCENT == 100

ADAPTIVE_SENSITIVITY == 5

DIFF_THRESHOLD == 100

\* 100.0 percent, and 1.0 for alpha and the sensitivity
Hundred == 1000

One == 10

AXES == {0, 1, 2}

\* loop iterations of the driver that are explored
MaxTicks == 5

VARIABLES alpha, dz_top, dz_bottom, pc, raw_line, parsed, i, v, values,
          smoothed, has_value, ticks, gap, pending, device, syncs, exit_cause,
          ui_open, ser_open

dvars == <<alpha, dz_top, dz_bottom, pc, raw_line, parsed, i, v, values,
           smoothed, has_value, ticks, gap, pending, device, syncs, exit_cause,
           ui_open, ser_open>>

vars == <<rvars, dvars>>

ReaderInit ==
    /\ now = 0
    /\ idx = 0
    /\ accel = None
    /\ current = [k \in MUX_CHANNELS |-> None]
    /\ norm = 0
    /\ spike = [k \in MUX_CHANNELS |-> "none"]
    /\ \E a \in [MUX_CHANNELS -> Reads] :
          /\ initial = [k \in MUX_CHANNELS |-> StartupValue(k, a[k])]
          /\ initial_seen = [k \in MUX_CHANNELS |-> a[k] # None]
    /\ min_vals = initial
    /\ max_vals = initial
    /\ min_stable_ms = [k \in MUX_CHANNELS |-> None]
    /\ max_stable_ms = [k \in MUX_CHANNELS |-> None]
    /\ normalized_positions = <<>>
    /\ printed = <<>>

\* one iteration of the inner loop: read, debounce, normalize, append
ReaderAxis ==
    /\ idx \in MUX_CHANNELS
    /\ \E a \in Reads :
         LET cur == ReadCurrent(idx, a, max_vals[idx])
             nmin == DebounceMin(cur, min_vals[idx], min_stable_ms[idx], now)
             nmax == DebounceMax(cur, max_vals[idx], max_stable_ms[idx], now)
             n == Normalize(cur, nmin[1], nmax[1])
         IN  /\ accel' = a
             /\ current' = [current EXCEPT ![idx] = Some(cur)]
             /\ initial_seen' = [initial_seen EXCEPT ![idx] =
                                   @ \/ (a # None /\ cur = initial[idx])]
             /\ spike' = [spike EXCEPT ![idx] =
                            Unheld(current[idx], cur, min_vals[idx], nmin[1],
                                   max_vals[idx], nmax[1])]
             /\ min_vals' = [min_vals EXCEPT ![idx] = nmin[1]]
             /\ min_stable_ms' = [min_stable_ms EXCEPT ![idx] = nmin[2]]
             /\ max_vals' = [max_vals EXCEPT ![idx] = nmax[1]]
             /\ max_stable_ms' = [max_stable_ms EXCEPT ![idx] = nmax[2]]
             /\ norm' = n
             /\ normalized_positions' = Append(normalized_positions, n)
    /\ idx' = idx + 1
    /\ UNCHANGED <<now, initial, printed>>
    /\ UNCHANGED dvars

\* end of a tick: print the list, sleep, read ticks_ms() for the next tick
ReaderPrint ==
    /\ idx = 3
    /\ printed' = normalized_positions
    /\ normalized_positions' = <<>>
    /\ idx' = 0
    /\ \E d \in TickDeltas : now + d <= MaxNow /\ now' = now + d
    /\ UNCHANGED <<accel, current, norm, initial, min_vals, max_vals,
                   min_stable_ms, max_stable_ms, spike, initial_seen>>
    /\ UNCHANGED dvars

\* ------------------------------------------------- Range Tracker: claims

\* the axis the inner loop has just finished
Done == idx - 1

\* C1: for every axis, after any sequence of ticks (samples, failed reads,
\* commits in either direction), the learned bounds satisfy min <= max
C1_MinLeMax == \A k \in MUX_CHANNELS : min_vals[k] <= max_vals[k]

\* a new minimum and a new maximum have both been committed
C1_Witness ==
    /\ \E k \in MUX_CHANNELS : min_vals[k] < initial[k]
    /\ \E k \in MUX_CHANNELS : max_vals[k] > initial[k]

\* C2 (as claimed): on a tick where the read of an axis fails, its min, max
\* and both pending timers are unchanged and the reported percentage is the
\* one of the previous tick
C2_FailedReadHolds ==
    [][ (idx \in MUX_CHANNELS /\ idx' = idx + 1 /\ accel' = None /\ printed # <<>>)
        => /\ min_vals'[idx] = min_vals[idx]
           /\ max_vals'[idx] = max_vals[idx]
           /\ min_stable_ms'[idx] = min_stable_ms[idx]
           /\ max_stable_ms'[idx] = max_stable_ms[idx]
           /\ norm' = printed[idx + 1] ]_vars

\* C7 (as claimed): a value that is present on one tick only, the samples of
\* the ticks before and after lying closer to the learned range, is never
\* committed as min or max
C7_NoSingleTickCommit ==
    [][ (idx \in MUX_CHANNELS /\ idx' = idx + 1 /\ accel' # None)
        => /\ ~(spike[idx] = "min" /\ TheVal(current'[idx]) > TheVal(current[idx]))
           /\ ~(spike[idx] = "max" /\ TheVal(current'[idx]) < TheVal(current[idx])) ]_vars

\* the case of C8: the axis just processed read its startup value x again
\* after a lower value was committed as min
C8_Case ==
    /\ Done \in MUX_CHANNELS
    /\ accel # None
    /\ current[Done] = Some(initial[Done])
    /\ min_vals[Done] < initial[Done]

\* C8 (as claimed): then the normalized output is strictly between 0 and 100
C8_StrictlyInside == C8_Case => (0 < norm /\ norm < 10000)

\* C8 (amended): while max is still x, the normalized output is exactly 100.0
C8_FullScaleAtStartupValue ==
    (C8_Case /\ max_vals[Done] = initial[Done]) => norm = 10000

C8_Witness == C8_Case /\ max_vals[Done] = initial[Done] /\ norm = 10000

\* --alpha and --deadzone as the operator may give them
ArgAlpha == {-3, 0, 2, 10}

ArgDeadzone == {0, 100, 1000, 1500}

\* float('nan'), which float() returns for the list element 'nan'; every
\* comparison with it is false and every sum or product with it is NaN
NaN == -99999

\* elements of a decoded frame: a number, or something float() rejects
Num(x) == <<"num", x>>

NotNum == <<"str", 0>>

IsNum(e) == e[1] = "num"

Line(k, es) == [kind |-> k, elems |-> es]

NumList(s) == Line("list", [k \in DOMAIN s |-> Num(s[k])])

\* serial lines: nothing (timeout), undecodable text, a literal that is no
\* list, a short list, a list with a non-number, and well-formed frames
BadLines ==
    { Line("empty", <<>>), Line("junk", <<>>), Line("scalar", <<>>),
      NumList(<<500, 500>>),
      Line("list", <<Num(500), NotNum, Num(500)>>) }

GoodLines ==
    { NumList(<<500, 500, 500>>), NumList(<<520, 950, 50>>),
      NumList(<<910, 899, 100, 7>>), NumList(<<NaN, 1200, -50>>) }

Lines == BadLines \cup GoodLines

\* a line without a frame decoded as a frame of zeros
Parse_ZeroFill(raw) ==
    IF raw.kind = "list" /\ Len(raw.elems) >= 3 THEN Some(raw.elems)
    ELSE Some(<<Num(0), Num(0), Num(0)>>)

\* raw_line -> parsed: ast.literal_eval, then the list / length test
Parse(raw) ==
    IF raw.kind = "list" /\ Len(raw.elems) >= 3 THEN Some(raw.elems) ELSE None

\* max(lo, min(hi, x)): min keeps hi unless x < hi, also for NaN
ClampArg(x, lo, hi) ==
    LET m == IF x # NaN /\ x < hi THEN x ELSE hi IN IF m > lo THEN m ELSE lo

\* the bottom deadzone with < in place of <=
Deadzone_StrictBottom(x, dzb, dzt) ==
    LET b == IF x < dzb THEN 0 ELSE x
    IN  IF b >= Hundred - dzt THEN Hundred ELSE b

\* the top deadzone compared with the width itself, not with 100 - width
Deadzone_TopAsThreshold(x, dzb, dzt) ==
    LET b == IF x <= dzb THEN 0 ELSE x
    IN  IF b >= dzt THEN Hundred ELSE b

\* bottom deadzone, then top deadzone
Deadzone(x, dzb, dzt) ==
    IF x = NaN THEN NaN
    ELSE LET b == IF x <= dzb THEN 0 ELSE x
         IN  IF b >= Hundred - dzt THEN Hundred ELSE b

\* the adapted alpha without the sensitivity factor
compute_adaptive_alpha_Insensitive(base_alpha, diff) ==
    IF diff <= DIFF_THRESHOLD THEN <<base_alpha, One>>
    ELSE LET adjn == (diff - DIFF_THRESHOLD) * One
             adjd == (Hundred - DIFF_THRESHOLD) * One
             sn == IF adjn < adjd THEN adjn ELSE adjd
         IN  <<base_alpha * adjd + (One - base_alpha) * sn, One * adjd>>

\* the adapted alpha falling with the distance instead of rising
compute_adaptive_alpha_Falling(base_alpha, diff) ==
    IF diff <= DIFF_THRESHOLD THEN <<base_alpha, One>>
    ELSE LET adjn == (diff - DIFF_THRESHOLD) * ADAPTIVE_SENSITIVITY
             adjd == (Hundred - DIFF_THRESHOLD) * One
             sn == IF adjn < adjd THEN adjn ELSE adjd
         IN  <<base_alpha * (adjd - sn), One * adjd>>

\* the adapted alpha as a fraction <<numerator, denominator>>
compute_adaptive_alpha(base_alpha, diff) ==
    IF diff <= DIFF_THRESHOLD THEN <<base_alpha, One>>
    ELSE LET adjn == (diff - DIFF_THRESHOLD) * ADAPTIVE_SENSITIVITY
             adjd == (Hundred - DIFF_THRESHOLD) * One
             sn == IF adjn < adjd THEN adjn ELSE adjd
         IN  <<base_alpha * adjd + (One - base_alpha) * sn, One * adjd>>

Abs(x) == IF x < 0 THEN 0 - x ELSE x

\* the weights of the new and of the old value exchanged
Smooth_OldWeighted(a, x, s) ==
    IF x = NaN \/ s = NaN THEN NaN
    ELSE LET ae == compute_adaptive_alpha(a, Abs(x - s))
         IN  RoundDiv(ae[1] * s + (ae[2] - ae[1]) * x, ae[2])

\* the smoothing step of an initialized axis
Smooth(a, x, s) ==
    IF x = NaN \/ s = NaN THEN NaN
    ELSE LET ae == compute_adaptive_alpha(a, Abs(x - s))
         IN  RoundDiv(ae[1] * x + (ae[2] - ae[1]) * s, ae[2])

\* int() of a non-negative value is the floor
percent_to_abs(pct) ==
    (ClampArg(pct, 0, Hundred) * (ABS_MAX - ABS_MIN)) \div Hundred + ABS_MIN

DriverInit ==
    /\ \E a \in ArgAlpha : alpha = ClampArg(a, 0, One)
    /\ \E d \in ArgDeadzone : dz_top = ClampArg(d, 0, Hundred)
    /\ dz_bottom = (IF DEADZONE_BOTTOM_PERCENT > 0 THEN DEADZONE_BOTTOM_PERCENT ELSE 0)
    /\ pc = "uinput"
    /\ ui_open = FALSE
    /\ ser_open = FALSE
    /\ raw_line = Line("empty", <<>>)
    /\ parsed = None
    /\ i = 0
    /\ v = 0
    /\ values = <<>>
    /\ smoothed = [k \in AXES |-> 0]
    /\ has_value = [k \in AXES |-> FALSE]
    /\ ticks = 0
    /\ gap = 0
    /\ pending = <<>>
    /\ device = [k \in AXES |-> 0]
    /\ syncs = 0
    /\ exit_cause = "none"

\* the counters of iterations and of syn events count up to MaxTicks
Count(n) == IF n < MaxTicks THEN n + 1 ELSE n

loopvars == <<alpha, dz_top, dz_bottom, raw_line, parsed, i, v, values,
              smoothed, has_value, ticks, gap, pending, device, syncs>>

\* UInput(cap, ...) succeeds
CreateUInput ==
    /\ pc = "uinput"
    /\ ui_open' = TRUE
    /\ pc' = "serial"
    /\ UNCHANGED <<loopvars, exit_cause, ser_open>>
    /\ UNCHANGED rvars

\* UInput(cap, ...) raises: message and sys.exit(1)
CreateUInputFails ==
    /\ pc = "uinput"
    /\ pc' = "exit"
    /\ exit_cause' = "uinput"
    /\ UNCHANGED <<loopvars, ui_open, ser_open>>
    /\ UNCHANGED rvars

\* serial.Serial(port, ...) succeeds
OpenSerial ==
    /\ pc = "serial"
    /\ ser_open' = TRUE
    /\ pc' = "starting"
    /\ UNCHANGED <<loopvars, exit_cause, ui_open>>
    /\ UNCHANGED rvars

\* serial.Serial(port, ...) raises: message, ui.close() and sys.exit(2)
OpenSerialFails ==
    /\ pc = "serial"
    /\ ui_open' = FALSE
    /\ pc' = "exit"
    /\ exit_cause' = "serial"
    /\ UNCHANGED <<loopvars, ser_open>>
    /\ UNCHANGED rvars

\* the prints and time.sleep(0.05) between the opening of the port and "try:"
Start ==
    /\ pc = "starting"
    /\ pc' = "read"
    /\ UNCHANGED <<loopvars, exit_cause, ui_open, ser_open>>
    /\ UNCHANGED rvars

\* the decoding of the line raw; without a frame the tick ends here with
\* values = smoothed[:]
Decode(raw) ==
    /\ raw_line' = raw
    /\ parsed' = Parse(raw)
    /\ IF Parse(raw) = None
       THEN /\ values' = [k \in 1..3 |-> smoothed[k - 1]]
            /\ pc' = "read"
            /\ ticks' = Count(ticks)
            /\ gap' = gap + 1
       ELSE /\ values' = <<>>
            /\ pc' = "shape"
            /\ ticks' = ticks
            /\ gap' = gap
    /\ i' = 0
    /\ UNCHANGED <<alpha, dz_top, dz_bottom, v, smoothed, has_value,
                   pending, device, syncs, exit_cause, ui_open, ser_open>>
    /\ UNCHANGED rvars

\* ser.readline() returns any line
ReadLine ==
    /\ pc = "read"
    /\ ticks < MaxTicks
    /\ \E raw \in Lines : Decode(raw)

\* how many frames the sample source sends before its frame stays the same
SteadyFrom == 2

\* ser.readline() of a source that sends valid frames only and, after its
\* first SteadyFrom frames, the same frame for ever
ReadLineSteady ==
    /\ pc = "read"
    /\ \E raw \in GoodLines :
         /\ syncs >= SteadyFrom => raw = raw_line
         /\ Decode(raw)

\* the first sample smoothed like any other, from the initial 0.0
ShapeAxis_SmoothFirst ==
    /\ pc = "shape"
    /\ LET e == TheVal(parsed)[i + 1]
       IN  IF ~IsNum(e)
           THEN /\ pc' = "exit"
                /\ exit_cause' = "exception"
                /\ ui_open' = FALSE
                /\ ser_open' = FALSE
                /\ UNCHANGED <<i, v, values, smoothed, has_value>>
           ELSE LET dzv == Deadzone(e[2], dz_bottom, dz_top)
                    s == Smooth(alpha, dzv, smoothed[i])
                IN  /\ v' = dzv
                    /\ smoothed' = [smoothed EXCEPT ![i] = s]
                    /\ has_value' = [has_value EXCEPT ![i] = TRUE]
                    /\ values' = Append(values, s)
                    /\ i' = IF i = 2 THEN 0 ELSE i + 1
                    /\ pc' = IF i = 2 THEN "write" ELSE "shape"
                    /\ UNCHANGED <<exit_cause, ui_open, ser_open>>
    /\ UNCHANGED <<alpha, dz_top, dz_bottom, raw_line, parsed, ticks, gap,
                   pending, device, syncs>>
    /\ UNCHANGED rvars

\* one iteration of "for i in range(3)": float(), deadzones, smoothing
ShapeAxis ==
    /\ pc = "shape"
    /\ LET e == TheVal(parsed)[i + 1]
       IN  IF ~IsNum(e)
           THEN /\ pc' = "exit"
                /\ exit_cause' = "exception"
                /\ ui_open' = FALSE
                /\ ser_open' = FALSE
                /\ UNCHANGED <<i, v, values, smoothed, has_value>>
           ELSE LET dzv == Deadzone(e[2], dz_bottom, dz_top)
                    s == IF has_value[i] THEN Smooth(alpha, dzv, smoothed[i])
                         ELSE dzv
                IN  /\ v' = dzv
                    /\ smoothed' = [smoothed EXCEPT ![i] = s]
                    /\ has_value' = [has_value EXCEPT ![i] = TRUE]
                    /\ values' = Append(values, s)
                    /\ i' = IF i = 2 THEN 0 ELSE i + 1
                    /\ pc' = IF i = 2 THEN "write" ELSE "shape"
                    /\ UNCHANGED <<exit_cause, ui_open, ser_open>>
    /\ UNCHANGED <<alpha, dz_top, dz_bottom, raw_line, parsed, ticks, gap,
                   pending, device, syncs>>
    /\ UNCHANGED rvars

\* ui.syn() indented into the write loop: every write is synchronized alone
WriteAxis_SynInLoop ==
    /\ pc = "write"
    /\ device' = [device EXCEPT ![i] = percent_to_abs(values[i + 1])]
    /\ syncs' = syncs + 1
    /\ i' = IF i = 2 THEN 0 ELSE i + 1
    /\ pc' = IF i = 2 THEN "read" ELSE "write"
    /\ ticks' = IF i = 2 THEN ticks + 1 ELSE ticks
    /\ gap' = IF i = 2 THEN 0 ELSE gap
    /\ UNCHANGED <<alpha, dz_top, dz_bottom, raw_line, parsed, v, values,
                   smoothed, has_value, pending, exit_cause, ui_open, ser_open>>
    /\ UNCHANGED rvars

\* one iteration of the write loop: ui.write(EV_ABS, AXES[i], ...)
WriteAxis ==
    /\ pc = "write"
    /\ pending' = Append(pending, [axis |-> i, val |-> percent_to_abs(values[i + 1]),
                                   tick |-> ticks])
    /\ i' = IF i = 2 THEN 0 ELSE i + 1
    /\ pc' = IF i = 2 THEN "syn" ELSE "write"
    /\ UNCHANGED <<alpha, dz_top, dz_bottom, raw_line, parsed, v, values,
                   smoothed, has_value, ticks, gap, device, syncs, exit_cause,
                   ui_open, ser_open>>
    /\ UNCHANGED rvars

\* ui.syn(): the consumer sees the pending writes; the tick ends
Syn ==
    /\ pc = "syn"
    /\ device' = [k \in AXES |->
                    IF \E n \in DOMAIN pending : pending[n].axis = k
                    THEN LET last == CHOOSE n \in DOMAIN pending :
                                        /\ pending[n].axis = k
                                        /\ \A m \in DOMAIN pending :
                                              pending[m].axis = k => m <= n
                         IN  pending[last].val
                    ELSE device[k]]
    /\ pending' = <<>>
    /\ syncs' = Count(syncs)
    /\ ticks' = Count(ticks)
    /\ gap' = 0
    /\ pc' = "read"
    /\ UNCHANGED <<alpha, dz_top, dz_bottom, raw_line, parsed, i, v, values,
                   smoothed, has_value, exit_cause, ui_open, ser_open>>
    /\ UNCHANGED rvars

\* the positions inside "try: while True"
InLoop == pc \in {"read", "shape", "write", "syn"}

\* Ctrl-C: inside the try block "Exiting..." and the finally block, which
\* closes ui and ser; before the try block an uncaught KeyboardInterrupt
Interrupt ==
    /\ pc # "exit"
    /\ pc' = "exit"
    /\ exit_cause' = "interrupt"
    /\ ui_open' = (IF InLoop THEN FALSE ELSE ui_open)
    /\ ser_open' = (IF InLoop THEN FALSE ELSE ser_open)
    /\ UNCHANGED <<alpha, dz_top, dz_bottom, raw_line, parsed, i, v, values,
                   smoothed, has_value, ticks, gap, pending, device, syncs>>
    /\ UNCHANGED rvars

\* the driver before it is started (the reader runs on its own board)
DriverIdle ==
    /\ alpha = ALPHA
    /\ dz_top = DEADZONE_TOP_PERCENT
    /\ dz_bottom = DEADZONE_BOTTOM_PERCENT
    /\ pc = "exit"
    /\ ui_open = FALSE
    /\ ser_open = FALSE
    /\ raw_line = Line("empty", <<>>)
    /\ parsed = None
    /\ i = 0
    /\ v = 0
    /\ values = <<>>
    /\ smoothed = [k \in AXES |-> 0]
    /\ has_value = [k \in AXES |-> FALSE]
    /\ ticks = 0
    /\ gap = 0
    /\ pending = <<>>
    /\ device = [k \in AXES |-> 0]
    /\ syncs = 0
    /\ exit_cause = "none"

\* the reader before it is started
ReaderIdle ==
    /\ now = 0
    /\ idx = 3
    /\ accel = None
    /\ current = [k \in MUX_CHANNELS |-> None]
    /\ norm = 0
    /\ spike = [k \in MUX_CHANNELS |-> "none"]
    /\ initial = [k \in MUX_CHANNELS |-> 0]
    /\ initial_seen = [k \in MUX_CHANNELS |-> FALSE]
    /\ min_vals = initial
    /\ max_vals = initial
    /\ min_stable_ms = [k \in MUX_CHANNELS |-> None]
    /\ max_stable_ms = [k \in MUX_CHANNELS |-> None]
    /\ normalized_positions = <<>>
    /\ printed = <<>>

\* ---------------------------------------------------- driver.py: claims

\* a line that yields no frame: empty read or timeout, undecodable text, a
\* literal that is no list, a list of fewer than 3 elements
NoFrame(raw) ==
    \/ raw.kind \in {"empty", "junk", "scalar"}
    \/ raw.kind = "list" /\ Len(raw.elems) < 3

\* a line that decodes into a list of at least 3 values, the first 3 numbers
Decodable(raw) ==
    /\ raw.kind = "list"
    /\ Len(raw.elems) >= 3
    /\ \A k \in 1..3 : IsNum(raw.elems[k])

\* C3: a tick without a valid frame leaves every axis's smoothed value and
\* initialized flag unchanged and sends nothing to the sink, so after any
\* number of such ticks the sink still holds, for every initialized axis, the
\* value of the smoothed state the next valid frame is shaped from
C3_NoFrameTickHolds ==
    [][ /\ NoFrame(raw_line')
           => /\ smoothed' = smoothed
              /\ has_value' = has_value
              /\ pending' = pending
              /\ device' = device
              /\ syncs' = syncs
        /\ (pc' = "read" /\ syncs' > 0)
           => \A k \in AXES : device'[k] = percent_to_abs(smoothed'[k]) ]_vars

\* a valid frame is being shaped right after three ticks without a frame
C3_Witness ==
    /\ pc = "shape"
    /\ Len(values) = 1
    /\ gap >= 3
    /\ syncs > 0
    /\ smoothed[0] # smoothed[1]

\* C4 (as claimed): a frame that does not decode into 3 numbers is "no sample
\* this tick": the shaping state is unchanged and the loop is not terminated
C4_UndecodableNotFatal ==
    [][ ~Decodable(raw_line')
        => /\ smoothed' = smoothed
           /\ has_value' = has_value
           /\ ~(pc' = "exit" /\ exit_cause' = "exception") ]_vars

\* C5: every synchronization event is preceded, since the previous one, by
\* exactly one write per axis, all of the current frame
C5_SynAfterAllAxes ==
    [][ syncs' # syncs
        => /\ Len(pending) = 3
           /\ parsed # None
           /\ \A k \in 1..3 : /\ pending[k].axis = k - 1
                              /\ pending[k].tick = ticks
                              /\ pending[k].val = percent_to_abs(smoothed[k - 1]) ]_vars

\* two synchronization events have been issued, with different reports
C5_Witness == syncs >= 2 /\ pending = <<>> /\ device # [k \in AXES |-> device[0]]

\* C6 (as claimed): every tick, also one without a valid frame, issues one
\* write per axis and then exactly one synchronization marker
C6_EveryTickEmits ==
    [][ ticks' # ticks => (Len(pending) = 3 /\ syncs' = syncs + 1) ]_vars

\* the percentage a pending write was computed from, clamped to 0..100
WrittenPct(n) == ClampArg(values[pending[n].axis + 1], 0, Hundred)

\* C9 (as claimed): the value written is the nearest integer to
\* outMin + (clamp(pct, 0, 100) / 100) * (outMax - outMin)
C9_NearestInteger ==
    \A n \in DOMAIN pending :
        pending[n].val = ABS_MIN + RoundDiv(WrittenPct(n) * (ABS_MAX - ABS_MIN), Hundred)

\* the input percentage of the axis that ShapeAxis is about to shape
ShapeInput == TheVal(parsed)[i + 1][2]

ShapeStep == pc = "shape" /\ values' # values

\* the value the deadzone stage makes of axis k of the current frame
Target(k) == Deadzone(TheVal(parsed)[k + 1][2], dz_bottom, dz_top)

\* C10 (as claimed): whatever the top deadzone, an input <= the bottom
\* deadzone reaches the smoother as 0 and moves the axis toward 0
C10_BottomAlwaysFloor ==
    [][ (ShapeStep /\ ShapeInput # NaN /\ ShapeInput <= dz_bottom)
        => (v' = 0 /\ smoothed'[i] <= smoothed[i]) ]_vars

\* C10 (amended): this holds for a top deadzone below 100; with a top
\* deadzone of exactly 100 the input reaches the smoother as 100
C10_BottomFloorBelowFullTop ==
    [][ (ShapeStep /\ ShapeInput # NaN /\ ShapeInput <= dz_bottom)
        => IF dz_top < Hundred
           THEN v' = 0 /\ smoothed'[i] <= smoothed[i]
           ELSE v' = Hundred /\ smoothed'[i] >= smoothed[i] ]_vars

\* an input of exactly the bottom deadzone was shaped to 0 and pulled an
\* axis that had a positive value down
C10_Witness ==
    /\ pc = "write"
    /\ TheVal(parsed)[3][2] = dz_bottom
    /\ dz_top < Hundred
    /\ v = 0
    /\ smoothed[2] > 0
    /\ smoothed[2] < 500

\* one iteration of the inner loop
AxisStep == idx \in MUX_CHANNELS /\ idx' = idx + 1

\* the rule for one bound of the axis being processed: c is this tick's
\* sample, beyond says that it lies outside the bound, b / nb and st / nst
\* are the bound and its timer before / after, pbeyond says that the sample
\* of the tick before lay outside the bound
DebounceRule(c, beyond, b, nb, st, nst, pbeyond) ==
    /\ nb # b => /\ beyond
                 /\ st # None
                 /\ ticks_diff(now, TheVal(st)) >= DEBOUNCE_MS
                 /\ nb = c
                 /\ nst = None
    /\ st # None => pbeyond
    /\ ~beyond => (nst = None /\ nb = b)
    /\ (beyond /\ st = None) => (nst = Some(now) /\ nb = b)

\* C16: min (max) changes only on a tick whose sample is below min (above
\* max) while the timer was already running for at least DEBOUNCE_MS, every
\* tick since its start having carried a sample below min (above max); a
\* sample >= min (<= max) clears the timer and leaves the bound, and the
\* next excursion starts a new window at its own first tick
C16_DebouncedCommit ==
    [][ AxisStep =>
          LET c == TheVal(current'[idx])
          IN  /\ DebounceRule(c, c < min_vals[idx], min_vals[idx], min_vals'[idx],
                              min_stable_ms[idx], min_stable_ms'[idx],
                              current[idx] # None
                                /\ TheVal(current[idx]) < min_vals[idx])
              /\ DebounceRule(c, c > max_vals[idx], max_vals[idx], max_vals'[idx],
                              max_stable_ms[idx], max_stable_ms'[idx],
                              current[idx] # None
                                /\ TheVal(current[idx]) > max_vals[idx]) ]_vars

\* a new minimum has just been committed on one axis while the timer of
\* another axis is running
C16_Witness ==
    /\ Done \in MUX_CHANNELS /\ accel # None
    /\ min_vals[Done] < initial[Done]
    /\ current[Done] = Some(min_vals[Done])
    /\ min_stable_ms[Done] = None
    /\ \E k \in MUX_CHANNELS : k # Done /\ min_stable_ms[k] # None

\* C18 (as claimed): on a tick that read the sensor of an axis, the min and
\* the max of the axis are values that occurred as real samples of it: a
\* bound still at the startup value needs that value to have been read from
\* the sensor (a bound that moved was committed from a sample, since the
\* substitute of a failed read is never beyond a bound)
C18_BoundsAreSamples ==
    (Done \in MUX_CHANNELS /\ accel # None /\ ~initial_seen[Done])
      => (min_vals[Done] # initial[Done] /\ max_vals[Done] # initial[Done])

\* a normalized output is within 0..100 percent
InRange(n) == 0 <= n /\ n <= 10000

\* C13: the normalized output of every axis is within [0, 100] on every
\* tick, and it is 100.0 whenever the learned max equals the learned min,
\* also while the sample lies outside the learned range and a timer is pending
C13_NormInRange ==
    /\ Done \in MUX_CHANNELS
         => /\ InRange(norm)
            /\ max_vals[Done] = min_vals[Done] => norm = 10000
    /\ \A n \in DOMAIN normalized_positions : InRange(normalized_positions[n])
    /\ \A n \in DOMAIN printed : InRange(printed[n])

\* at the end of a tick one axis with max = min sits above max with its
\* timer pending and reports 100.0, another sits below a learned range with
\* its timer pending and reports 0.0
C13_Witness ==
    /\ idx = 3
    /\ \E k \in MUX_CHANNELS :
          /\ min_vals[k] = max_vals[k]
          /\ TheVal(current[k]) > max_vals[k]
          /\ max_stable_ms[k] # None
          /\ normalized_positions[k + 1] = 10000
    /\ \E k \in MUX_CHANNELS :
          /\ min_vals[k] < max_vals[k]
          /\ TheVal(current[k]) < min_vals[k]
          /\ min_stable_ms[k] # None
          /\ normalized_positions[k + 1] = 0

\* C11: for every top deadzone and every input above the bottom deadzone,
\* the deadzone stage yields 100 exactly when the input is >= 100 - top
\* deadzone, and the input itself otherwise
C11_TopDeadzoneIff ==
    [][ (ShapeStep /\ ShapeInput # NaN /\ ShapeInput > dz_bottom)
          => v' = (IF ShapeInput >= Hundred - dz_top THEN Hundred
                   ELSE ShapeInput) ]_vars

\* 91.0 became 100 and 89.9 stayed 89.9 under a top deadzone of 10
C11_Witness ==
    /\ dz_top = DEADZONE_TOP_PERCENT
    /\ raw_line = NumList(<<910, 899, 100, 7>>)
    /\ ticks = 0 /\ pc = "shape" /\ i = 2
    /\ values = <<Hundred, 899>> /\ v = 899

\* -------------------------------------------------- adaptive smoothing
\* steps of smoothing that are followed when ticks are counted
MaxSettle == 30

\* tolerances around the target, in tenths of a percent
Tolerances == {10, 50, 100}

\* a fraction <<n, d>> of compute_adaptive_alpha over the common denominator
AlphaDen == One * (Hundred - DIFF_THRESHOLD) * One

Scaled(ae) == ae[1] * (AlphaDen \div ae[2])

\* the smoothing step with the base alpha alone
SmoothBase(a, x, s) == RoundDiv(a * x + (One - a) * s, One)

\* the ticks it takes from s to come within tol of the constant input x,
\* with the adaptive alpha or with the base alpha alone; n steps are followed
RECURSIVE TicksWithin(_, _, _, _, _, _)
TicksWithin(a, adaptive, x, s, tol, n) ==
    IF Abs(x - s) <= tol \/ n = 0 THEN 0
    ELSE 1 + TicksWithin(a, adaptive, x,
                         IF adaptive THEN Smooth(a, x, s) ELSE SmoothBase(a, x, s),
                         tol, n - 1)

\* base <= effective <= 1 on 0..100, non-decreasing, and above the base
\* beyond the threshold when the base is below 1
AlphaShapeAt(a, d) ==
    LET e == Scaled(compute_adaptive_alpha(a, d))
    IN  /\ a * (AlphaDen \div One) <= e
        /\ e <= AlphaDen
        /\ d < Hundred => e <= Scaled(compute_adaptive_alpha(a, d + 1))
        /\ (d > DIFF_THRESHOLD /\ a < One) => e > a * (AlphaDen \div One)

AlphaShape(a) == \A d \in 0..Hundred : AlphaShapeAt(a, d)

\* the loop is entered with the configured alpha
EnterLoop == pc = "starting" /\ pc' = "read"

\* a smoothing step of an initialized axis between two numbers
SmoothStep == ShapeStep /\ has_value[i] /\ v' # NaN /\ smoothed[i] # NaN

\* ... that is a jump beyond the threshold, with a base alpha below 1
JumpStep == SmoothStep /\ alpha < One /\ Abs(v' - smoothed[i]) > DIFF_THRESHOLD

\* C14 (as claimed): alphaBase <= alphaEff <= 1, alphaEff is non-decreasing
\* in the distance and above alphaBase beyond the threshold, and a jump
\* beyond the threshold comes within a fixed tolerance of its target in
\* fewer ticks than with alphaBase alone
C14_FewerTicks ==
    [][ /\ EnterLoop => AlphaShape(alpha)
        /\ SmoothStep => AlphaShapeAt(alpha, Abs(v' - smoothed[i]))
        /\ JumpStep =>
              \A tol \in Tolerances :
                 TicksWithin(alpha, TRUE, v', smoothed[i], tol, MaxSettle)
                   < TicksWithin(alpha, FALSE, v', smoothed[i], tol, MaxSettle) ]_vars

\* C14 (amended): the same bounds on alphaEff, and such a jump comes within
\* a fixed tolerance of its target in no more ticks than with alphaBase alone
C14_NoMoreTicks ==
    [][ /\ EnterLoop => AlphaShape(alpha)
        /\ SmoothStep => AlphaShapeAt(alpha, Abs(v' - smoothed[i]))
        /\ JumpStep =>
              \A tol \in Tolerances :
                 TicksWithin(alpha, TRUE, v', smoothed[i], tol, MaxSettle)
                   <= TicksWithin(alpha, FALSE, v', smoothed[i], tol, MaxSettle) ]_vars

\* alpha 0.2: axis 1 has jumped from 50 towards 100, which the adaptive
\* alpha brings within 5 in fewer ticks than the base alpha
C14_Witness ==
    /\ alpha = ALPHA /\ dz_top = DEADZONE_TOP_PERCENT
    /\ ticks = 1 /\ pc = "shape" /\ i = 2
    /\ raw_line = NumList(<<520, 950, 50>>)
    /\ values = <<504, 689>>
    /\ TicksWithin(alpha, TRUE, Hundred, 500, 50, MaxSettle)
         < TicksWithin(alpha, FALSE, Hundred, 500, 50, MaxSettle)

\* n / d is, to the nearest tenth of a percent, the value
\* alphaEff * x + (1 - alphaEff) * s, where alphaEff is a if |x - s| is at most
\* the threshold and a + (1 - a) * min(1, ((|x - s| - threshold) / (100 -
\* threshold)) * sensitivity) otherwise; res is compared with n / d
IsSmoothed(res, a, x, s) ==
    LET diff == Abs(x - s)
        p == (diff - DIFF_THRESHOLD) * ADAPTIVE_SENSITIVITY
        q == (Hundred - DIFF_THRESHOLD) * One
        d == IF diff <= DIFF_THRESHOLD THEN One ELSE One * q
        n == IF diff <= DIFF_THRESHOLD THEN a * x + (One - a) * s
             ELSE LET m == IF p < q THEN p ELSE q
                      e == a * q + (One - a) * m
                  IN  e * x + (d - e) * s
    IN  2 * Abs(res * d - n) <= d

\* C17: an initialized axis is smoothed with alphaEff = alphaBase for
\* |v - s| <= diffThreshold and alphaBase + (1 - alphaBase) * min(1, ((|v - s|
\* - diffThreshold) / (100 - diffThreshold)) * adaptiveSensitivity) otherwise,
\* to alphaEff * v + (1 - alphaEff) * s; from 50.0 with alphaBase 0.2 the
\* input 52.0 gives 50.4 and the input 95.0 gives 66.0
C17_AdaptiveEMA ==
    [][ SmoothStep =>
          /\ IsSmoothed(smoothed'[i], alpha, v', smoothed[i])
          /\ (alpha = ALPHA /\ smoothed[i] = 500 /\ v' = 520) => smoothed'[i] = 504
          /\ (alpha = ALPHA /\ smoothed[i] = 500 /\ v' = 950) => smoothed'[i] = 660
      ]_vars

\* alpha 0.2, no top deadzone: after 50, 50, 50 the inputs 52.0 and 95.0
\* have been smoothed to 50.4 and 66.0
C17_Witness ==
    /\ alpha = ALPHA /\ dz_top = 0
    /\ ticks = 1 /\ pc = "shape" /\ i = 2 /\ v = 950
    /\ values = <<504, 660>>

\* a finite percentage within 0..100
Finite(x) == x # NaN /\ 0 <= x /\ x <= Hundred

\* C19 (as claimed): whatever the accepted frames carry, the value leaving
\* the deadzone stage and the new smoothed value are finite and within
\* [0, 100], and the new smoothed value of an initialized axis lies between
\* the previous smoothed value and the deadzoned input
C19_FiniteNoOvershoot ==
    [][ ShapeStep =>
          /\ Finite(v')
          /\ Finite(smoothed'[i])
          /\ has_value[i] =>
                \/ smoothed[i] <= smoothed'[i] /\ smoothed'[i] <= v'
                \/ v' <= smoothed'[i] /\ smoothed'[i] <= smoothed[i] ]_vars

\* C20: every axis starts UNINITIALIZED; it becomes INITIALIZED when a valid
\* frame is shaped, its smoothed value being set to the deadzoned input
\* without smoothing; it never becomes UNINITIALIZED again
C20_InitializedOnce ==
    [][ /\ ~InLoop => \A k \in AXES : ~has_value[k] \/ pc = "exit"
        /\ ShapeStep => has_value'[i]
        /\ \A k \in AXES :
              /\ has_value[k] => has_value'[k]
              /\ (~has_value[k] /\ has_value'[k])
                   => /\ ShapeStep /\ k = i
                      /\ v' = Target(k)
                      /\ smoothed'[k] = v' ]_vars

\* after the first valid frame a tick without a frame has passed and all
\* axes are still INITIALIZED
C20_Witness ==
    /\ \A k \in AXES : has_value[k]
    /\ syncs = 1 /\ gap >= 1 /\ pc = "read"
    /\ \A k \in AXES : smoothed[k] \in {0, 500, Hundred}

\* C15 (as claimed): on every path by which the process leaves after it
\* acquired a resource, the output sink and the serial handle are closed
C15_ClosedOnExit == pc = "exit" => (~ui_open /\ ~ser_open)

\* C12 (as claimed): when every later valid frame carries the same input,
\* the smoothed value of every axis eventually equals that input exactly
\* and stays equal
C12_ReachesInputExactly ==
    <>[](parsed # None /\ \A k \in AXES : smoothed[k] = Target(k))

\* C12 (amended): with base smoothing factor 1 every valid frame sets the
\* smoothed value of an initialized axis to the value leaving the deadzone
\* stage, unless the smoothed value is NaN, which stays NaN
C12_FactorOneTracks ==
    [][ (ShapeStep /\ alpha = One /\ has_value[i])
          => smoothed'[i] = (IF smoothed[i] = NaN THEN NaN ELSE v') ]_vars

\* factor 1: after 50, 50, 50 the frame 52, 95, 5 has been followed for
\* three ticks
C12_Witness ==
    /\ alpha = One /\ syncs >= 3 /\ pc = "read"
    /\ raw_line = NumList(<<520, 950, 50>>)
    /\ smoothed[0] = 520 /\ smoothed[2] = 0

NextReader == ReaderAxis \/ ReaderPrint

\* reader.py on its board
InitReader == ReaderInit /\ DriverIdle

SpecReader == InitReader /\ [][NextReader]_vars

NextDriver ==
    \/ CreateUInput \/ CreateUInputFails \/ OpenSerial \/ OpenSerialFails
    \/ Start \/ ReadLine \/ ShapeAxis \/ WriteAxis \/ Syn \/ Interrupt

\* driver.py on the host
InitDriver == DriverInit /\ ReaderIdle

SpecDriver == InitDriver /\ [][NextDriver]_vars

\* the driver on a sample source that settles on one frame
NextSteady ==
    \/ CreateUInput \/ OpenSerial \/ Start
    \/ ReadLineSteady \/ ShapeAxis \/ WriteAxis \/ Syn

SpecSteady == InitDriver /\ [][NextSteady]_vars /\ WF_vars(NextSteady)

====
